---- MODULE Spec2Model ----
(***************************************************************************)
(* Model of the hierarchical manager/worker workflow of                    *)
(* examples/multi-agent/hierarchical.py.                                   *)
(*                                                                         *)
(* Python strings are TLA+ strings; a Python dict is a function whose      *)
(* DOMAIN is the set of keys present.  The graph runtime is modelled by    *)
(* the variable `node`, the node that executes next: the entry point is    *)
(* "manager", the conditional edge after "manager" is route_agent, and     *)
(* the plain edges are those added in create_hierarchical_workflow.        *)
(* The `messages` channel is read by no node's logic and is left out.      *)
(*                                                                         *)
(* The other programs of the repository have a variable each: `agent` is   *)
(* the PlanAndExecuteAgent of examples/planning/plan_and_execute.py and    *)
(* its run, `nt` the NoteTaker and `srch` a call of structured_search of   *)
(* examples/basic/tool_definition.py, `cli` an execution of main.py.  A    *)
(* specification runs one program; the variables of the others stay idle.  *)
(***************************************************************************)
EXTENDS Integers, Sequences, FiniteSets, TLC

VARIABLES tasks, i, state, node, trace, printed, given, agent, nt, cli, srch

vars == <<tasks, i, state, node, trace, printed, given, agent, nt, cli, srch>>

\* the variables of the programs other than the hierarchical workflow
rest == <<agent, nt, cli, srch>>

\* a program that is not run
Idle == [pc |-> "idle"]

(* ------------------------------ bounds --------------------------------- *)

\* longest task list main() is run with
MaxTasks == 2
\* cap on the node executions recorded for one invocation of the graph
MaxSteps == 12
\* cap on the direct calls of manager_node in SelectSpec
MaxCalls == 3

(* ------------------------- Python string helpers ----------------------- *)
(* The functions on strings are TLA+ functions rather than operators: a    *)
(* function's argument is evaluated once, before the function is applied.  *)

Min(a, b) == IF a < b THEN a ELSE b

\* s[:n]
Prefix[s \in STRING, n \in Nat] ==
    IF Len(s) = 0 THEN "" ELSE SubSeq(s, 1, Min(n, Len(s)))

UpperChars == "ABCDEFGHIJKLMNOPQRSTUVWXYZ"
LowerChars == "abcdefghijklmnopqrstuvwxyz"

LowerChar[c \in STRING] ==
    IF \E k \in 1..Len(UpperChars) : SubSeq(UpperChars, k, k) = c
    THEN LET k == CHOOSE k \in 1..Len(UpperChars) : SubSeq(UpperChars, k, k) = c
         IN  SubSeq(LowerChars, k, k)
    ELSE c

\* s.lower(): every character mapped by LowerChar (the string is split in
\* halves, which keeps the recursion shallow)
Lower[s \in STRING] ==
    IF Len(s) = 0 THEN ""
    ELSE IF Len(s) = 1 THEN LowerChar[s]
    ELSE LET h == Len(s) \div 2
         IN  Lower[SubSeq(s, 1, h)] \o Lower[SubSeq(s, h + 1, Len(s))]

\* sub in s
Contains[sub \in STRING, s \in STRING] ==
    \/ Len(sub) = 0
    \/ \E p \in 1..(Len(s) - Len(sub) + 1) : SubSeq(s, p, p + Len(sub) - 1) = sub

\* s * n
Repeat[s \in STRING, n \in Int] == IF n <= 0 THEN "" ELSE s \o Repeat[s, n - 1]

(* ------------------------------ the tools ------------------------------ *)

knowledge_base ==
    << [key |-> "artificial intelligence",
        val |-> "AI is transforming industries with machine learning, NLP, and computer vision."],
       [key |-> "climate change",
        val |-> "Climate change involves rising global temperatures and environmental impacts."],
       [key |-> "quantum computing",
        val |-> "Quantum computers use qubits to solve complex problems faster than classical computers."],
       [key |-> "blockchain",
        val |-> "Blockchain is a distributed ledger technology enabling secure, transparent transactions."] >>

\* the first key of knowledge_base, in the dict's order, that occurs in q; 0 if none
FirstKeyIn[q \in STRING] ==
    LET hits == {k \in 1..Len(knowledge_base) : Contains[knowledge_base[k].key, q]}
    IN  IF hits = {} THEN 0 ELSE CHOOSE k \in hits : \A h \in hits : k <= h

web_search[query \in STRING] ==
    LET k == FirstKeyIn[Lower[query]]
    IN  IF k # 0
        THEN "Research finding: " \o knowledge_base[k].val
        ELSE "Research finding: General information about " \o query

analyze_data[data \in STRING] ==
    "Analysis: The data shows important patterns and trends. Key insight: "
        \o Prefix[data, 100] \o "..."

positive_words == <<"good", "great", "excellent", "positive", "beneficial">>

AnyWordIn[t \in STRING] ==
    \E k \in 1..Len(positive_words) : Contains[positive_words[k], t]

sentiment_analysis[text \in STRING] ==
    IF AnyWordIn[Lower[text]]
    THEN "Sentiment: Positive - The content has optimistic and constructive themes"
    ELSE "Sentiment: Neutral - The content presents factual information"

generate_summary[content \in STRING] ==
    "Summary: " \o Prefix[content, 150] \o "... [Content summarized]"

(* ------------------------------ the workers ---------------------------- *)

research[topic \in STRING] ==
    "Research completed on '" \o topic \o "': " \o web_search[topic]

analyze[data \in STRING] ==
    "Analysis complete: " \o analyze_data[data] \o "\n" \o sentiment_analysis[data]

\* the memo pictograph that opens the report's heading is written [memo]
write[content \in STRING] ==
    "\n[memo] Written Report:\n\n" \o generate_summary[content]
        \o "\n\nThis report synthesizes the research and analysis findings into a coherent narrative."
        \o "\nThe content has been structured for clarity and impact.\n"

(* ------------------------------ the record ----------------------------- *)

Keys == {"task", "research_results", "analysis_results", "writing_results",
         "final_output", "next_agent"}

\* state[k] = v
Set(s, k, v) == [x \in (DOMAIN s) \cup {k} |-> IF x = k THEN v ELSE s[x]]

\* not state.get(k)
Falsy(s, k) == k \notin DOMAIN s \/ s[k] = ""

\* no record: main() has not created one yet
NoRecord == [x \in {} |-> ""]

\* mutant: one record is made before the loop and used for every task
initial_state_reused(task) ==
    IF state = NoRecord
    THEN [x \in Keys |-> IF x = "task" THEN task
                         ELSE IF x = "next_agent" THEN "manager"
                         ELSE ""]
    ELSE Set(Set(state, "task", task), "next_agent", "manager")

\* AgentState(messages=[...], task=task, research_results="", ...)
initial_state(task) ==
    [x \in Keys |-> IF x = "task" THEN task
                    ELSE IF x = "next_agent" THEN "manager"
                    ELSE ""]

(* ------------------------------ the nodes ------------------------------ *)

\* mutant: the analysis test comes before the research test
manager_node_swapped(s) ==
    IF Falsy(s, "analysis_results") THEN Set(s, "next_agent", "analysis")
    ELSE IF Falsy(s, "research_results") THEN Set(s, "next_agent", "research")
    ELSE IF Falsy(s, "writing_results") THEN Set(s, "next_agent", "writing")
    ELSE Set(s, "next_agent", "finalize")

\* mutant: the writing test is missing
manager_node_early(s) ==
    IF Falsy(s, "research_results") THEN Set(s, "next_agent", "research")
    ELSE IF Falsy(s, "analysis_results") THEN Set(s, "next_agent", "analysis")
    ELSE Set(s, "next_agent", "finalize")

\* mutant: the field of the worker delegated to is marked as pending
manager_node_marks(s) ==
    IF Falsy(s, "research_results")
    THEN Set(Set(s, "research_results", "pending"), "next_agent", "research")
    ELSE IF Falsy(s, "analysis_results")
    THEN Set(Set(s, "analysis_results", "pending"), "next_agent", "analysis")
    ELSE IF Falsy(s, "writing_results")
    THEN Set(Set(s, "writing_results", "pending"), "next_agent", "writing")
    ELSE Set(s, "next_agent", "finalize")

\* mutant: a result that reports an error counts as missing
manager_node_retry(s) ==
    LET Failed(k) == \/ Falsy(s, k)
                     \/ Len(s[k]) >= 5 /\ SubSeq(s[k], 1, 5) = "Error"
    IN  IF Failed("research_results") THEN Set(s, "next_agent", "research")
        ELSE IF Failed("analysis_results") THEN Set(s, "next_agent", "analysis")
        ELSE IF Failed("writing_results") THEN Set(s, "next_agent", "writing")
        ELSE Set(s, "next_agent", "finalize")

manager_node(s) ==
    IF Falsy(s, "research_results") THEN Set(s, "next_agent", "research")
    ELSE IF Falsy(s, "analysis_results") THEN Set(s, "next_agent", "analysis")
    ELSE IF Falsy(s, "writing_results") THEN Set(s, "next_agent", "writing")
    ELSE Set(s, "next_agent", "finalize")

research_arg(s) == s["task"]

\* mutant: the task is normalised to lower case before the research
research_node_retask(s) ==
    Set(Set(Set(s, "task", Lower[s["task"]]),
            "research_results", research[Lower[s["task"]]]),
        "next_agent", "manager")

\* mutant: control is not handed back to the manager
research_node_noreset(s) == Set(s, "research_results", research[research_arg(s)])

\* mutant: the result is not recorded
research_node_lost(s) == Set(s, "next_agent", "manager")

\* mutant: the topic is recorded as the result, the agent is not called
research_node_echo(s) ==
    Set(Set(s, "research_results", research_arg(s)), "next_agent", "manager")

research_node(s) ==
    Set(Set(s, "research_results", research[research_arg(s)]),
        "next_agent", "manager")

\* mutant: the analysis worker is given the task
analysis_arg_task(s) == s["task"]

analysis_arg(s) == s["research_results"]

\* mutant: the result is recorded under the writing worker's key
analysis_node_wrongkey(s) ==
    Set(Set(s, "writing_results", analyze[analysis_arg(s)]),
        "next_agent", "manager")

\* mutant: the research is redone from the task before the analysis
analysis_node_refreshes(s) ==
    Set(Set(Set(s, "research_results", research[s["task"]]),
            "analysis_results", analyze[research[s["task"]]]),
        "next_agent", "manager")

analysis_node(s) ==
    Set(Set(s, "analysis_results", analyze[analysis_arg(s)]),
        "next_agent", "manager")

writing_arg(s) == s["research_results"] \o "\n\n" \o s["analysis_results"]

\* mutant: the result is not recorded
writing_node_lost(s) == Set(s, "next_agent", "manager")

\* mutant: the combined text is stored back over the research result
writing_node_overwrites(s) ==
    Set(Set(Set(s, "research_results", writing_arg(s)),
            "writing_results", write[writing_arg(s)]),
        "next_agent", "manager")

writing_node(s) ==
    Set(Set(s, "writing_results", write[writing_arg(s)]),
        "next_agent", "manager")

\* mutant: the analysis result is placed before the research result
finalize_node_reordered(s) ==
    LET final_output ==
            "\n" \o Repeat["=", 70] \o "\nFINAL REPORT\n" \o Repeat["=", 70]
            \o "\n\nTask: " \o s["task"]
            \o "\n\n" \o s["analysis_results"]
            \o "\n\n" \o s["research_results"]
            \o "\n\n" \o s["writing_results"]
            \o "\n\n" \o Repeat["=", 70] \o "\nReport complete.\n"
            \o Repeat["=", 70] \o "\n"
    IN  Set(Set(s, "final_output", final_output), "next_agent", "end")

finalize_node(s) ==
    LET final_output ==
            "\n" \o Repeat["=", 70] \o "\nFINAL REPORT\n" \o Repeat["=", 70]
            \o "\n\nTask: " \o s["task"]
            \o "\n\n" \o s["research_results"]
            \o "\n\n" \o s["analysis_results"]
            \o "\n\n" \o s["writing_results"]
            \o "\n\n" \o Repeat["=", 70] \o "\nReport complete.\n"
            \o Repeat["=", 70] \o "\n"
    IN  Set(Set(s, "final_output", final_output), "next_agent", "end")

routing ==
    [manager |-> "manager", research |-> "research", analysis |-> "analysis",
     writing |-> "writing", finalize |-> "finalize", end |-> "END"]

\* mutant: the label "writing" is routed to the finalize node
route_agent_typo(s) ==
    LET next_agent == IF "next_agent" \in DOMAIN s THEN s["next_agent"] ELSE "manager"
    IN  IF next_agent = "writing" THEN "finalize"
        ELSE IF next_agent \in DOMAIN routing THEN routing[next_agent] ELSE "END"

\* mutant: a record without next_agent is routed to END
route_agent_nodefault(s) ==
    IF "next_agent" \in DOMAIN s /\ s["next_agent"] \in DOMAIN routing
    THEN routing[s["next_agent"]]
    ELSE "END"

route_agent(s) ==
    LET next_agent == IF "next_agent" \in DOMAIN s THEN s["next_agent"] ELSE "manager"
    IN  IF next_agent \in DOMAIN routing THEN routing[next_agent] ELSE "END"

(* ------------------------------ the inputs ----------------------------- *)

TaskStrings ==
    { "Research artificial intelligence and create a report",
      "Investigate climate change impacts and provide analysis",
      "demo",
      "",
      "GREAT Blockchain and Quantum Computing news" }

RECURSIVE SeqsUpTo(_, _)
SeqsUpTo(S, n) ==
    IF n = 0 THEN { <<>> }
    ELSE LET shorter == SeqsUpTo(S, n - 1)
         IN  shorter \cup { Append(q, x) : q \in shorter, x \in S }

(* ------------------------------ the actions ---------------------------- *)

Log(n, arg, out) == Append(trace, [node |-> n, arg |-> arg, out |-> out])

\* main(): for i, task in enumerate(tasks, 1): initial_state = ...; app.invoke
MainInvoke ==
    /\ node = "idle"
    /\ i <= Len(tasks)
    /\ state' = initial_state(tasks[i])
    /\ node' = "manager"
    /\ trace' = <<>>
    /\ given' = state'
    /\ UNCHANGED <<tasks, i, printed, rest>>

\* the "manager" node and the conditional edge that leaves it
Manager ==
    /\ node = "manager"
    /\ Len(trace) < MaxSteps
    /\ state' = manager_node(state)
    /\ node' = route_agent(state')
    /\ trace' = Log("manager", "", state'["next_agent"])
    /\ UNCHANGED <<tasks, i, printed, given, rest>>

Research ==
    /\ node = "research"
    /\ Len(trace) < MaxSteps
    /\ state' = research_node(state)
    /\ node' = "manager"
    /\ trace' = Log("research", research_arg(state), state'["research_results"])
    /\ UNCHANGED <<tasks, i, printed, given, rest>>

Analysis ==
    /\ node = "analysis"
    /\ Len(trace) < MaxSteps
    /\ state' = analysis_node(state)
    /\ node' = "manager"
    /\ trace' = Log("analysis", analysis_arg(state), state'["analysis_results"])
    /\ UNCHANGED <<tasks, i, printed, given, rest>>

Writing ==
    /\ node = "writing"
    /\ Len(trace) < MaxSteps
    /\ state' = writing_node(state)
    /\ node' = "manager"
    /\ trace' = Log("writing", writing_arg(state), state'["writing_results"])
    /\ UNCHANGED <<tasks, i, printed, given, rest>>

Finalize ==
    /\ node = "finalize"
    /\ Len(trace) < MaxSteps
    /\ state' = finalize_node(state)
    /\ node' = "END"
    /\ trace' = Log("finalize", "", state'["final_output"])
    /\ UNCHANGED <<tasks, i, printed, given, rest>>

\* main(): print(result["final_output"]) and the loop's next iteration
MainPrint ==
    /\ node = "END"
    /\ i <= Len(tasks)
    /\ printed' = Append(printed, state["final_output"])
    /\ i' = i + 1
    /\ node' = "idle"
    /\ UNCHANGED <<tasks, state, trace, given, rest>>

\* the programs other than the hierarchical workflow are not run
RestIdle == agent = Idle /\ nt = Idle /\ cli = Idle /\ srch = Idle

Init ==
    /\ tasks \in SeqsUpTo(TaskStrings, MaxTasks)
    /\ i = 1
    /\ state = NoRecord
    /\ node = "idle"
    /\ trace = <<>>
    /\ printed = <<>>
    /\ given = NoRecord
    /\ RestIdle

Next ==
    \/ MainInvoke
    \/ Manager
    \/ Research
    \/ Analysis
    \/ Writing
    \/ Finalize
    \/ MainPrint

Spec == Init /\ [][Next]_vars

\* the program is sequential: whenever a step is possible it is taken
FairSpec == Spec /\ WF_vars(Next)

(* ---------------- the graph invoked on an arbitrary record ------------- *)

ResultKeys == {"research_results", "analysis_results", "writing_results"}

\* what a worker that cannot produce a result would record
ErrorString == "Error: worker failed"

\* what a result field may hold when the graph is invoked
FieldInputs == {"", "R", ErrorString}

\* what next_agent may hold when the graph is invoked
LabelInputs == {"manager", "finalize"}

\* the tasks of the records the graph is invoked on
AnyTasks == {"demo", ""}

\* every AgentState with a task: a result field or next_agent may be missing
AnyRecords ==
    UNION { [ {"task", "final_output"} \cup present -> TaskStrings \cup FieldInputs \cup LabelInputs ]
            : present \in SUBSET (ResultKeys \cup {"next_agent"}) }

WellFormed(s) ==
    /\ s["task"] \in AnyTasks
    /\ s["final_output"] = ""
    /\ \A k \in ResultKeys \cap DOMAIN s : s[k] \in FieldInputs
    /\ "next_agent" \in DOMAIN s => s["next_agent"] \in LabelInputs

\* app.invoke(record): execution starts at the entry point
InitAny ==
    /\ state \in {s \in AnyRecords : WellFormed(s)}
    /\ tasks = <<state["task"]>>
    /\ i = 1
    /\ node = "manager"
    /\ trace = <<>>
    /\ printed = <<>>
    /\ given = state
    /\ RestIdle

NextAny ==
    \/ Manager
    \/ Research
    \/ Analysis
    \/ Writing
    \/ Finalize

SpecAny == InitAny /\ [][NextAny]_vars

(* ---------------- manager_node called directly on a record ------------- *)

CallManager ==
    /\ node = "select"
    /\ Len(trace) < MaxCalls
    /\ state' = manager_node(state)
    /\ trace' = Log("manager", "", state'["next_agent"])
    /\ UNCHANGED <<tasks, i, node, printed, given, rest>>

InitSelect ==
    /\ state \in {s \in AnyRecords : WellFormed(s)}
    /\ tasks = <<state["task"]>>
    /\ i = 1
    /\ node = "select"
    /\ trace = <<>>
    /\ printed = <<>>
    /\ given = state
    /\ RestIdle

NextSelect == CallManager

SelectSpec == InitSelect /\ [][NextSelect]_vars

(* ------------- PlanAndExecuteAgent (plan_and_execute.py) --------------- *)

\* cap on the entries of execution_log in one run
MaxLog == 6

\* s.find(c): the 0-based index of the first c in s, -1 if there is none
Find[c \in STRING, s \in STRING] ==
    LET ps == {p \in 1..Len(s) : SubSeq(s, p, p) = c}
    IN  IF ps = {} THEN -1 ELSE (CHOOSE p \in ps : \A q \in ps : p <= q) - 1

\* s.rfind(c): the 0-based index of the last c in s, -1 if there is none
RFind[c \in STRING, s \in STRING] ==
    LET ps == {p \in 1..Len(s) : SubSeq(s, p, p) = c}
    IN  IF ps = {} THEN -1 ELSE (CHOOSE p \in ps : \A q \in ps : p >= q) - 1

\* s[a:b] for 0 <= a < b <= len(s)
Slice[s \in STRING, a \in Nat, b \in Nat] == SubSeq(s, a + 1, b)

Step(n, d, c) == [step_number |-> n, description |-> d, estimated_complexity |-> c]

OneStepText ==
    "[{\"step_number\": 1, \"description\": \"Do it all\", \"estimated_complexity\": \"high\"}]"

TwoStepText ==
    "[\n  {\"step_number\": 1, \"description\": \"Research topic X\", \"estimated_complexity\": \"medium\"},\n"
    \o "  {\"step_number\": 2, \"description\": \"Analyze findings\", \"estimated_complexity\": \"low\"}\n]"

\* json.loads on the texts the planning responses hold between their first
\* [ and their last ]; any other text is not JSON
json_loads(text) ==
    CASE text = "[]" -> [ok |-> TRUE, value |-> <<>>]
      [] text = OneStepText ->
            [ok |-> TRUE, value |-> <<Step(1, "Do it all", "high")>>]
      [] text = TwoStepText ->
            [ok |-> TRUE, value |-> <<Step(1, "Research topic X", "medium"),
                                      Step(2, "Analyze findings", "low")>>]
      [] OTHER -> [ok |-> FALSE, value |-> <<>>]

\* what the model may answer to the planning prompt
PlanResponses ==
    { "[]",
      "Plan: " \o OneStepText,
      "Here is the plan:\n" \o TwoStepText \o "\nGood luck!",
      "I cannot make a plan for this.",
      "Steps: [first do X, then do Y]",
      "] nothing here [" }

\* what the model may answer to an execution prompt
StepOutputs ==
    { "Did the work. The step is complete.",
      "An ERROR occurred while running the step.",
      "The step Failed: no data.",
      "" }

PlanTasks == {"Research machine learning fundamentals and create a beginner's guide", "demo"}

_create_fallback_plan(task) ==
    << Step(1, "Understand: " \o task, "low"),
       Step(2, "Gather required information", "medium"),
       Step(3, "Execute main task", "high"),
       Step(4, "Verify results", "low") >>

\* create_plan: the plan returned and the agent's current_plan afterwards
create_plan(a, task, content) ==
    LET start == Find["[", content]
        end == RFind["]", content] + 1
    IN  IF start # -1 /\ end > start
        THEN LET parsed == json_loads(Slice[content, start, end])
             IN  IF parsed.ok
                 THEN [plan |-> parsed.value, current_plan |-> parsed.value]
                 ELSE [plan |-> _create_fallback_plan(task),
                       current_plan |-> a.current_plan]
        ELSE [plan |-> _create_fallback_plan(task), current_plan |-> a.current_plan]

\* the result record execute_step builds for a step and the model's answer
execute_step(step, output) ==
    [step_number |-> step.step_number, description |-> step.description,
     output |-> output, status |-> "completed", timestamp |-> "now"]

\* progress_percentage is kept as the fraction num/den
monitor_progress(a) ==
    LET total_steps == Len(a.current_plan)
        completed_steps == Len(a.execution_log)
    IN  [total_steps |-> total_steps,
         completed_steps |-> completed_steps,
         progress_percentage |->
             IF total_steps > 0
             THEN [num |-> completed_steps * 100, den |-> total_steps]
             ELSE [num |-> 0, den |-> 1],
         remaining_steps |-> total_steps - completed_steps]

\* mutant: the output is searched as it is, without lower()
should_replan_cased(last_result) ==
    IF Contains["error", last_result.output] THEN TRUE
    ELSE IF Contains["failed", last_result.output] THEN TRUE
    ELSE FALSE

should_replan(last_result) ==
    IF Contains["error", Lower[last_result.output]] THEN TRUE
    ELSE IF Contains["failed", Lower[last_result.output]] THEN TRUE
    ELSE FALSE

\* a local variable of run that no statement has assigned yet
Unbound == [unbound |-> TRUE]

\* PlanAndExecuteAgent(llm), and run(task) about to start
NewAgent(task, content) ==
    [pc |-> "planning", task |-> task, response |-> content,
     current_plan |-> <<>>, execution_log |-> <<>>,
     plan |-> <<>>, k |-> 1, context |-> "", progress |-> Unbound,
     replans |-> <<>>, final_result |-> Unbound, error |-> ""]

\* run, phase 1: create_plan and the listing of the plan; context is set
RunPlan ==
    /\ agent.pc = "planning"
    /\ LET made == create_plan(agent, agent.task, agent.response)
       IN  agent' = [agent EXCEPT !.pc = "executing",
                                  !.plan = made.plan,
                                  !.current_plan = made.current_plan,
                                  !.context = "Task: " \o agent.task \o "\n\n"]
    /\ UNCHANGED <<tasks, i, state, node, trace, printed, given, nt, cli, srch>>

\* run, phase 2: one iteration of `for step in plan`
RunStep ==
    /\ agent.pc = "executing"
    /\ agent.k <= Len(agent.plan)
    /\ Len(agent.execution_log) < MaxLog
    /\ \E output \in StepOutputs :
         LET step == agent.plan[agent.k]
             result == execute_step(step, output)
             logged == [agent EXCEPT !.execution_log = Append(@, result)]
         IN  agent' = [logged EXCEPT
                 !.context = @ \o "Step " \o ToString(step.step_number) \o ": "
                               \o Prefix[output, 200] \o "...\n\n",
                 !.progress = monitor_progress(logged),
                 !.replans = Append(@, should_replan(result)),
                 !.k = @ + 1]
    /\ UNCHANGED <<tasks, i, state, node, trace, printed, given, nt, cli, srch>>

\* run, phase 3: final_result is built, then the success rate is printed
\* from the local `progress`, which only the loop body assigns
RunSummary ==
    /\ agent.pc = "executing"
    /\ agent.k > Len(agent.plan)
    /\ LET final_result ==
               [task |-> agent.task, plan |-> agent.plan,
                execution_log |-> agent.execution_log,
                progress |-> monitor_progress(agent), status |-> "completed"]
       IN  IF agent.progress = Unbound
           THEN agent' = [agent EXCEPT !.pc = "raised", !.error = "UnboundLocalError"]
           ELSE agent' = [agent EXCEPT !.pc = "returned", !.final_result = final_result]
    /\ UNCHANGED <<tasks, i, state, node, trace, printed, given, nt, cli, srch>>

\* the hierarchical workflow is not run
HierIdle ==
    /\ tasks = <<>>
    /\ i = 1
    /\ state = NoRecord
    /\ node = "idle"
    /\ trace = <<>>
    /\ printed = <<>>
    /\ given = NoRecord

InitPlan ==
    /\ HierIdle
    /\ agent \in {NewAgent(t, c) : t \in PlanTasks, c \in PlanResponses}
    /\ nt = Idle
    /\ cli = Idle
    /\ srch = Idle

NextPlan ==
    \/ RunPlan
    \/ RunStep
    \/ RunSummary

PlanSpec == InitPlan /\ [][NextPlan]_vars

(* -------------------- NoteTaker (tool_definition.py) ------------------- *)
(* self.notes is a dict: a sequence of key/value pairs in insertion order. *)

\* cap on the calls made on one NoteTaker
MaxNoteCalls == 3

NoteKeys == {"task1", "task2"}
NoteValues == {"Complete documentation", "Review code"}

\* key in self.notes
HasNote(notes, key) == \E j \in 1..Len(notes) : notes[j].k = key

\* self.notes[key]
NoteOf(notes, key) == notes[CHOOSE j \in 1..Len(notes) : notes[j].k = key].v

\* sep.join(parts)
RECURSIVE Join(_, _)
Join(sep, parts) ==
    IF Len(parts) = 0 THEN ""
    ELSE IF Len(parts) = 1 THEN parts[1]
    ELSE parts[1] \o sep \o Join(sep, Tail(parts))

\* str(list(self.notes.keys()))
KeysRepr(notes) ==
    "[" \o Join(", ", [j \in 1..Len(notes) |-> "'" \o notes[j].k \o "'"]) \o "]"

\* mutant: a note that exists is not updated
add_note_keepfirst(notes, key, value) ==
    LET after == IF HasNote(notes, key) THEN notes
                 ELSE Append(notes, [k |-> key, v |-> value])
    IN  [notes |-> after,
         ret |-> "Note '" \o key \o "' saved successfully. Total notes: "
                    \o ToString(Len(after))]

add_note(notes, key, value) ==
    LET after == IF HasNote(notes, key)
                 THEN [j \in 1..Len(notes) |->
                          IF notes[j].k = key THEN [k |-> key, v |-> value]
                          ELSE notes[j]]
                 ELSE Append(notes, [k |-> key, v |-> value])
    IN  [notes |-> after,
         ret |-> "Note '" \o key \o "' saved successfully. Total notes: "
                    \o ToString(Len(after))]

get_note(notes, key) ==
    [notes |-> notes,
     ret |-> IF HasNote(notes, key)
             THEN "Note '" \o key \o "': " \o NoteOf(notes, key)
             ELSE "Note '" \o key \o "' not found. Available notes: "
                      \o KeysRepr(notes)]

list_notes(notes) ==
    [notes |-> notes,
     ret |-> IF Len(notes) = 0 THEN "No notes saved yet."
             ELSE "All notes (" \o ToString(Len(notes)) \o "):\n"
                      \o Join("\n", [j \in 1..Len(notes) |->
                                        "- " \o notes[j].k \o ": " \o notes[j].v])]

clear_notes(notes) ==
    [notes |-> <<>>, ret |-> "Cleared " \o ToString(Len(notes)) \o " notes."]

\* the call is made and recorded with what it returned
Called(op, key, value, done) ==
    nt' = [nt EXCEPT !.notes = done.notes,
                     !.log = Append(@, [op |-> op, key |-> key,
                                        value |-> value, ret |-> done.ret])]

AddNote ==
    /\ nt.pc = "ready"
    /\ Len(nt.log) < MaxNoteCalls
    /\ \E key \in NoteKeys, value \in NoteValues :
           Called("add", key, value, add_note(nt.notes, key, value))
    /\ UNCHANGED <<tasks, i, state, node, trace, printed, given, agent, cli, srch>>

GetNote ==
    /\ nt.pc = "ready"
    /\ Len(nt.log) < MaxNoteCalls
    /\ \E key \in NoteKeys : Called("get", key, "", get_note(nt.notes, key))
    /\ UNCHANGED <<tasks, i, state, node, trace, printed, given, agent, cli, srch>>

ListNotes ==
    /\ nt.pc = "ready"
    /\ Len(nt.log) < MaxNoteCalls
    /\ Called("list", "", "", list_notes(nt.notes))
    /\ UNCHANGED <<tasks, i, state, node, trace, printed, given, agent, cli, srch>>

ClearNotes ==
    /\ nt.pc = "ready"
    /\ Len(nt.log) < MaxNoteCalls
    /\ Called("clear", "", "", clear_notes(nt.notes))
    /\ UNCHANGED <<tasks, i, state, node, trace, printed, given, agent, cli, srch>>

\* note_taker = NoteTaker()
InitNotes ==
    /\ HierIdle
    /\ nt = [pc |-> "ready", notes |-> <<>>, log |-> <<>>]
    /\ agent = Idle
    /\ cli = Idle
    /\ srch = Idle

NextNotes ==
    \/ AddNote
    \/ GetNote
    \/ ListNotes
    \/ ClearNotes

NotesSpec == InitNotes /\ [][NextNotes]_vars

(* ------------------------- command line (main.py) ---------------------- *)
(* cli.argv is sys.argv; cli.menus counts show_menu calls, cli.ran lists    *)
(* the example modules whose entry point was called, cli.out the messages.  *)

\* the directories under src/examples; a package is imported by the name of
\* its directory
PackageDirs == {"basic", "multi-agent", "planning", "react-pattern"}

\* the modules of each directory
ModulesOf ==
    [d \in PackageDirs |->
        CASE d = "basic" -> {"simple_agent", "tool_definition"}
          [] d = "multi-agent" -> {"hierarchical"}
          [] d = "planning" -> {"plan_and_execute"}
          [] d = "react-pattern" -> {"basic_react"}]

\* from examples.<package> import <module>
Importable(package, module) ==
    package \in PackageDirs /\ module \in ModulesOf[package]

run_simple_agent == [package |-> "basic", module |-> "simple_agent"]
run_react == [package |-> "react_pattern", module |-> "basic_react"]
run_multi_agent == [package |-> "multi_agent", module |-> "hierarchical"]
run_planning == [package |-> "planning", module |-> "plan_and_execute"]
show_tools == [package |-> "basic", module |-> "tool_definition"]

examples ==
    [c \in {"simple", "react", "multi-agent", "multiagent", "planning", "plan",
            "tools", "tool"} |->
        CASE c = "simple" -> run_simple_agent
          [] c = "react" -> run_react
          [] c \in {"multi-agent", "multiagent"} -> run_multi_agent
          [] c \in {"planning", "plan"} -> run_planning
          [] c \in {"tools", "tool"} -> show_tools]

HelpWords == {"help", "-h", "--help"}

\* sys.argv[1] as typed
Commands ==
    {"simple", "SIMPLE", "react", "React", "multi-agent", "Multi-Agent",
     "multiagent", "planning", "PLANNING", "plan", "tools", "Tools", "tool",
     "help", "HELP", "-h", "-H", "--help", "bogus", "", "simple_agent", "menu"}

\* arguments after the first
ExtraArgs == {<<>>, <<"--verbose">>, <<"react">>}

\* main, up to the call of the example's function
Dispatch ==
    /\ cli.pc = "start"
    /\ IF Len(cli.argv) < 2
       THEN cli' = [cli EXCEPT !.pc = "done", !.menus = @ + 1]
       ELSE LET command == Lower[cli.argv[2]]
            IN  IF command \in HelpWords
                THEN cli' = [cli EXCEPT !.pc = "done", !.menus = @ + 1]
                ELSE IF command \in DOMAIN examples
                THEN cli' = [cli EXCEPT !.pc = "calling", !.fn = examples[command]]
                ELSE cli' = [cli EXCEPT !.pc = "done",
                                        !.out = "Unknown command: " \o command]
    /\ UNCHANGED <<tasks, i, state, node, trace, printed, given, agent, nt, srch>>

\* the import statement of the example's function, inside main's try
ImportExample ==
    /\ cli.pc = "calling"
    /\ IF Importable(cli.fn.package, cli.fn.module)
       THEN cli' = [cli EXCEPT !.pc = "running", !.ran = Append(@, cli.fn.module)]
       ELSE cli' = [cli EXCEPT !.pc = "done",
                               !.out = "Error importing example: No module named 'examples."
                                          \o cli.fn.package \o "'"]
    /\ UNCHANGED <<tasks, i, state, node, trace, printed, given, agent, nt, srch>>

\* the example's entry point returns
ExampleReturns ==
    /\ cli.pc = "running"
    /\ cli' = [cli EXCEPT !.pc = "done"]
    /\ UNCHANGED <<tasks, i, state, node, trace, printed, given, agent, nt, srch>>

\* the example's entry point raises and main reports it
ExampleRaises ==
    /\ cli.pc = "running"
    /\ cli' = [cli EXCEPT !.pc = "done", !.out = "Error running example"]
    /\ UNCHANGED <<tasks, i, state, node, trace, printed, given, agent, nt, srch>>

InitCli ==
    /\ HierIdle
    /\ agent = Idle
    /\ nt = Idle
    /\ srch = Idle
    /\ \E argv \in {<<"main.py">>}
                     \cup {<<"main.py", c>> \o x : c \in Commands, x \in ExtraArgs} :
           cli = [pc |-> "start", argv |-> argv, menus |-> 0, ran |-> <<>>,
                  out |-> "", fn |-> [package |-> "", module |-> ""]]

NextCli ==
    \/ Dispatch
    \/ ImportExample
    \/ ExampleReturns
    \/ ExampleRaises

CliSpec == InitCli /\ [][NextCli]_vars

(* ------------------ structured_search (tool_definition.py) ------------- *)

\* the largest max_results asked for, besides the documented maximum
MaxAsked == 6

\* min(max_results, 4)
ResultCap == 4

\* "max: 100"
DocumentedMax == 100

SearchQueries == {"python programming", "artificial intelligence", ""}
FilterTypes == {"None", "news", "academic", "general"}
AskedResults == (-1..MaxAsked) \cup {DocumentedMax}

\* range(1, stop)
Range1(stop) == [j \in 1..(stop - 1) |-> j]

\* one element of mock_results
mock_result(query, j) ==
    [title |-> "Result " \o ToString(j),
     url |-> "https://example.com/" \o ToString(j),
     snippet |-> "Information about " \o query]

\* json.dumps(output.dict(), indent=2), for text that needs no escaping
json_dumps(output) ==
    LET item(r) == "    {\n      \"title\": \"" \o r.title
                       \o "\",\n      \"url\": \"" \o r.url
                       \o "\",\n      \"snippet\": \"" \o r.snippet \o "\"\n    }"
        items == [j \in 1..Len(output.results) |-> item(output.results[j])]
        list == IF Len(items) = 0 THEN "[]"
                ELSE "[\n" \o Join(",\n", items) \o "\n  ]"
    IN  "{\n  \"results\": " \o list
            \o ",\n  \"total_found\": " \o ToString(output.total_found)
            \o ",\n  \"query\": \"" \o output.query \o "\"\n}"

structured_search(query, max_results, filter_type) ==
    LET steps == Range1(Min(max_results, ResultCap) + 1)
        mock_results == [j \in 1..Len(steps) |-> mock_result(query, steps[j])]
        output == [results |-> mock_results,
                   total_found |-> Len(mock_results),
                   query |-> query]
    IN  [output |-> output, ret |-> json_dumps(output)]

Search ==
    /\ srch.pc = "called"
    /\ LET done == structured_search(srch.query, srch.max_results, srch.filter_type)
       IN  srch' = [srch EXCEPT !.pc = "done", !.output = done.output,
                                !.ret = done.ret]
    /\ UNCHANGED <<tasks, i, state, node, trace, printed, given, agent, nt, cli>>

InitSearch ==
    /\ HierIdle
    /\ agent = Idle
    /\ nt = Idle
    /\ cli = Idle
    /\ \E query \in SearchQueries, max_results \in AskedResults,
          filter_type \in FilterTypes :
           srch = [pc |-> "called", query |-> query, max_results |-> max_results,
                   filter_type |-> filter_type,
                   output |-> [results |-> <<>>, total_found |-> 0, query |-> ""],
                   ret |-> ""]

NextSearch == Search

SearchSpec == InitSearch /\ [][NextSearch]_vars

(* ------------------------ observations of a run ------------------------ *)

InRun == node \in {"manager", "research", "analysis", "writing", "finalize", "END"}

NonEmpty(k) == ~Falsy(state, k)

Last(q) == q[Len(q)]

IsWorkerEntry(e) == e.node # "manager"
IsManagerEntry(e) == e.node = "manager"

\* the worker/finalize invocations of the run so far, in order
Invoked == LET w == SelectSeq(trace, IsWorkerEntry)
           IN  [k \in 1..Len(w) |-> w[k].node]

\* the router's selections of the run so far, in order
Selected == LET m == SelectSeq(trace, IsManagerEntry)
            IN  [k \in 1..Len(m) |-> m[k].out]

Count(n) == Cardinality({k \in 1..Len(trace) : trace[k].node = n})

IsPrefix(p, q) == Len(p) <= Len(q) /\ \A k \in 1..Len(p) : p[k] = q[k]

FullOrder == <<"research", "analysis", "writing", "finalize">>

\* position of the first occurrence of sub in s at or after from, 0 if none
FindFrom(sub, s, from) ==
    LET ps == {q \in from..(Len(s) - Len(sub) + 1) :
                  Len(sub) = 0 \/ SubSeq(s, q, q + Len(sub) - 1) = sub}
    IN  IF ps = {} THEN 0 ELSE CHOOSE q \in ps : \A r \in ps : q <= r

\* the strings of parts occur in s one after another, without overlap
RECURSIVE InOrderFrom(_, _, _)
InOrderFrom(parts, s, from) ==
    IF Len(parts) = 0 THEN TRUE
    ELSE LET q == FindFrom(Head(parts), s, from)
         IN  q # 0 /\ InOrderFrom(Tail(parts), s, q + Len(Head(parts)))

\* the result the worker n returned in this run
Returned(n) == (CHOOSE e \in {trace[k] : k \in 1..Len(trace)} : e.node = n).out

Get(s, k) == IF k \in DOMAIN s THEN s[k] ELSE ""

Workers == {"research", "analysis", "writing"}

\* the result field a worker node fills
Field(w) == CASE w = "research" -> "research_results"
              [] w = "analysis" -> "analysis_results"
              [] w = "writing" -> "writing_results"

(* ------------------------------- claims -------------------------------- *)

\* the step for each of the 8 combinations of <<research empty, analysis
\* empty, writing empty>>
ExpectedStep(rE, aE, wE) ==
    CASE <<rE, aE, wE>> = <<TRUE, TRUE, TRUE>> -> "research"
      [] <<rE, aE, wE>> = <<TRUE, TRUE, FALSE>> -> "research"
      [] <<rE, aE, wE>> = <<TRUE, FALSE, TRUE>> -> "research"
      [] <<rE, aE, wE>> = <<TRUE, FALSE, FALSE>> -> "research"
      [] <<rE, aE, wE>> = <<FALSE, TRUE, TRUE>> -> "analysis"
      [] <<rE, aE, wE>> = <<FALSE, TRUE, FALSE>> -> "analysis"
      [] <<rE, aE, wE>> = <<FALSE, FALSE, TRUE>> -> "writing"
      [] <<rE, aE, wE>> = <<FALSE, FALSE, FALSE>> -> "finalize"

\* a step in which manager_node is called directly
SelectStep == node = "select" /\ trace' # trace

\* a step in which the node n of the graph executes
NodeStep(n) == node = n /\ trace' # trace

C1_Step ==
    SelectStep =>
        LET step == ExpectedStep(Falsy(state, "research_results"),
                                 Falsy(state, "analysis_results"),
                                 Falsy(state, "writing_results"))
        IN  state'["next_agent"] = step /\ Last(trace').out = step

\* C1: for each of the 8 combinations of empty/non-empty result fields a
\* call of manager_node selects research if research_results is empty, else
\* analysis if analysis_results is empty, else writing if writing_results is
\* empty, else finalize.
C1_Selection == [][C1_Step]_vars

\* research filled, analysis empty, writing filled: the first test that
\* matches wins
C1_Witness ==
    /\ node = "select"
    /\ trace # <<>>
    /\ ~Falsy(state, "research_results")
    /\ Falsy(state, "analysis_results")
    /\ ~Falsy(state, "writing_results")
    /\ state["next_agent"] = "analysis"

\* C2: in a run from an empty record the worker/finalize invocations are a
\* prefix of research, analysis, writing, finalize, and exactly these four
\* when the run has ended.
C2_FourInvocations ==
    InRun => /\ IsPrefix(Invoked, FullOrder)
             /\ node = "END" => Invoked = FullOrder

C2_Witness == node = "END" /\ Invoked = FullOrder /\ Len(trace) = 8

C3_WorkerFills ==
    node \in Workers =>
        \E k \in ResultKeys :
            /\ Falsy(state, k) /\ ~Falsy(state', k)
            /\ \A o \in ResultKeys \ {k} : Get(state', o) = Get(state, o)

C3_NothingAfterEnd == node = "END" => UNCHANGED <<state, trace>>

\* C3: every run from an empty record ends; at the end the router has
\* selected exactly research, analysis, writing, finalize; each worker step
\* fills exactly one result field that was empty and leaves the other two
\* alone; nothing executes after finalize.
C3_Terminates ==
    /\ [](node = "END" => Selected = FullOrder /\ Last(trace).node = "finalize")
    /\ [][C3_WorkerFills]_vars
    /\ [][C3_NothingAfterEnd]_vars
    /\ (node = "manager" ~> node = "END")

C3_Witness == node = "END" /\ Len(Selected) = 4 /\ Last(trace).node = "finalize"

C4_Step ==
    InRun =>
        \A w \in Workers :
            Get(state', Field(w)) # Get(state, Field(w)) =>
                /\ node = w
                /\ Falsy(state, Field(w))
                /\ ~Falsy(state', Field(w))

\* C4: during a run a result field changes only in a step of its own worker
\* node, from empty to non-empty, and each worker node has run exactly once
\* when the run has ended.
C4_WrittenOnce ==
    /\ [][C4_Step]_vars
    /\ [](node = "END" => \A w \in Workers : Count(w) = 1 /\ NonEmpty(Field(w)))

C4_Witness ==
    /\ node = "END"
    /\ \A w \in Workers : Count(w) = 1 /\ state[Field(w)] = Returned(w)

\* C5: analysis_results non-empty implies research_results non-empty, and
\* writing_results non-empty implies analysis_results non-empty.
C5_FillOrder ==
    /\ NonEmpty("analysis_results") => NonEmpty("research_results")
    /\ NonEmpty("writing_results") => NonEmpty("analysis_results")

C5_Witness ==
    /\ node = "writing"
    /\ NonEmpty("research_results")
    /\ NonEmpty("analysis_results")
    /\ ~NonEmpty("writing_results")

C6_Step ==
    InRun /\ Get(state', "final_output") # Get(state, "final_output") =>
        /\ node = "finalize"
        /\ Falsy(state, "final_output")
        /\ ~Falsy(state', "final_output")

\* C6: final_output is empty in every state of a run before finalize has
\* run, changes only in the finalize step (from empty to non-empty, once),
\* and is non-empty only when the three result fields are.
C6_FinalOutput ==
    /\ [](InRun /\ node # "END" => Falsy(state, "final_output"))
    /\ [](NonEmpty("final_output") => \A w \in Workers : NonEmpty(Field(w)))
    /\ [][C6_Step]_vars
    /\ [](node = "END" => Count("finalize") = 1 /\ NonEmpty("final_output"))

C6_Witness ==
    /\ node = "END"
    /\ NonEmpty("final_output")
    /\ Last(trace).node = "finalize"

\* C7: the final report contains the task, then the string the research
\* worker returned, then the string the analysis worker returned, then the
\* string the writing worker returned, each verbatim.
C7_Report ==
    node = "END" =>
        InOrderFrom(<<state["task"], Returned("research"),
                      Returned("analysis"), Returned("writing")>>,
                    state["final_output"], 1)

C7_Witness ==
    /\ node = "END"
    /\ state["task"] = "demo"
    /\ Contains[Returned("writing"), state["final_output"]]

C8_OriginalStep ==
    SelectStep => Last(trace').out = trace'[1].out /\ state' = state

\* C8 as stated: every call of manager_node returns the same step and
\* leaves the record unchanged.
C8_Original == [][C8_OriginalStep]_vars

C8_Step ==
    SelectStep =>
        /\ Last(trace').out = trace'[1].out
        /\ state'["next_agent"] = trace'[1].out
        /\ \A k \in Keys \ {"next_agent"} :
               /\ k \in DOMAIN state' <=> k \in DOMAIN state
               /\ k \in DOMAIN state => state'[k] = state[k]
        /\ Len(trace) >= 1 => state' = state

\* C8 amended: every call of manager_node returns the same step and changes
\* no field other than next_agent, which it sets to that step; every call
\* after the first leaves the record unchanged.
C8_Idempotent == [][C8_Step]_vars

C8_Witness ==
    /\ node = "select"
    /\ Len(trace) >= 2
    /\ trace[1].out = "analysis"
    /\ trace[2].out = "analysis"

C9_Step ==
    /\ NodeStep("analysis") =>
           /\ Count("research") = 1
           /\ NonEmpty("research_results")
           /\ state["research_results"] = Returned("research")
           /\ Last(trace').arg = Returned("research")
    /\ NodeStep("writing") =>
           /\ Count("research") = 1 /\ Count("analysis") = 1
           /\ NonEmpty("research_results") /\ NonEmpty("analysis_results")
           /\ state["research_results"] = Returned("research")
           /\ state["analysis_results"] = Returned("analysis")
           /\ Last(trace').arg =
                  Returned("research") \o "\n\n" \o Returned("analysis")

\* C9: the analysis worker runs only when research_results is recorded and
\* is given the string the research worker returned; the writing worker
\* runs only when research_results and analysis_results are recorded and is
\* given the research worker's string followed by the analysis worker's.
C9_Sequential == [][C9_Step]_vars

C9_Witness ==
    /\ node = "manager"
    /\ Count("analysis") = 1
    /\ Count("writing") = 1
    /\ Last(trace).node = "writing"

C10_Step ==
    NodeStep("manager") =>
        /\ \A w \in Workers :
               ~Falsy(state, Field(w)) => state'["next_agent"] # w /\ node' # w
        /\ node' \in Workers \cup {"finalize"}
        /\ node' \in Workers => Falsy(state, Field(node'))

\* C10: a non-empty string in a result field, an error message included,
\* counts as complete: the router never selects the worker of a non-empty
\* field, selects a worker whose field is empty (or finalize), and no worker
\* node is about to run while its field is non-empty.
C10_ErrorAdvances ==
    /\ [][C10_Step]_vars
    /\ [](\A w \in Workers : node = w => Falsy(state, Field(w)))

\* the research field holds an error message and the router has moved on to
\* the analysis worker
C10_Witness ==
    /\ node = "analysis"
    /\ Get(state, "research_results") = ErrorString
    /\ Last(trace).out = "analysis"
    /\ Count("research") = 0

\* the nodes executed in the run so far, in order
Executed == [k \in 1..Len(trace) |-> trace[k].node]

\* C11: in every state of a run task is the string the record was created
\* with, and no step of a run changes it.
C11_TaskImmutable ==
    /\ [](InRun => state["task"] = tasks[i] /\ state["task"] = given["task"])
    /\ [][InRun => state'["task"] = state["task"]]_vars

\* a run on a task with capital letters has ended
C11_Witness ==
    /\ node = "END"
    /\ state["task"] = "GREAT Blockchain and Quantum Computing news"
    /\ Len(trace) = 8

C12_FreshStep ==
    node = "idle" /\ node' = "manager" =>
        /\ state'["task"] = tasks[i]
        /\ \A k \in ResultKeys \cup {"final_output"} :
               k \in DOMAIN state' /\ state'[k] = ""
        /\ trace' = <<>>

\* C12: every run main() starts begins with a record whose result fields
\* and final_output are empty; every run takes the same four steps with
\* results computed in that run, and two runs on the same task print the
\* same report.
C12_NotShared ==
    /\ [][C12_FreshStep]_vars
    /\ [](node = "END" =>
            /\ Invoked = FullOrder
            /\ \A w \in Workers : state[Field(w)] = Returned(w))
    /\ [](\A a, b \in 1..Len(printed) : tasks[a] = tasks[b] => printed[a] = printed[b])

\* the second run has started: the first run's report is printed and the
\* record is empty again
C12_Witness ==
    /\ i = 2
    /\ node = "manager"
    /\ Len(printed) = 1
    /\ trace = <<>>
    /\ \A k \in ResultKeys : state[k] = ""

Labels == {"manager", "research", "analysis", "writing", "finalize", "end"}

\* C13: next_agent is one of the six labels; it is a worker label or
\* finalize right after the manager node, "manager" right after a worker
\* node and "end" after finalize.
C13_Label ==
    InRun =>
        /\ state["next_agent"] \in Labels
        /\ trace = <<>> => state["next_agent"] = "manager"
        /\ trace # <<>> /\ Last(trace).node = "manager" =>
               state["next_agent"] \in Workers \cup {"finalize"}
        /\ trace # <<>> /\ Last(trace).node \in Workers =>
               state["next_agent"] = "manager"
        /\ trace # <<>> /\ Last(trace).node = "finalize" =>
               state["next_agent"] = "end"

C13_Witness ==
    /\ node = "manager"
    /\ trace # <<>>
    /\ Last(trace).node = "research"
    /\ state["next_agent"] = "manager"

NodeOrder == <<"manager", "research", "manager", "analysis",
               "manager", "writing", "manager", "finalize">>

\* C19: the nodes executed in a run from an empty record are a prefix of
\* manager, research, manager, analysis, manager, writing, manager,
\* finalize; the node that runs next is the next of that list, and END
\* after all eight.
C19_NodeSequence ==
    InRun =>
        /\ IsPrefix(Executed, NodeOrder)
        /\ node = "END" <=> Executed = NodeOrder
        /\ node # "END" => node = NodeOrder[Len(trace) + 1]

C19_Witness == node = "END" /\ Executed = NodeOrder /\ state["next_agent"] = "end"

\* the invocation the record the graph was invoked with calls for
Needed(w) == w = "finalize" \/ Falsy(given, Field(w))

\* C20: on any initial record the invocations so far are a prefix of
\* research, analysis, writing, finalize without the workers whose field was
\* non-empty initially, all of it when the run has ended; a field that was
\* non-empty initially keeps its value.
C20_AnyRecord ==
    /\ IsPrefix(Invoked, SelectSeq(FullOrder, Needed))
    /\ node = "END" => Invoked = SelectSeq(FullOrder, Needed)
    /\ \A w \in Workers :
           ~Falsy(given, Field(w)) =>
               Count(w) = 0 /\ state[Field(w)] = given[Field(w)]

\* research was given, analysis and writing were not: the run has ended
\* without the research worker
C20_Witness ==
    /\ node = "END"
    /\ Get(given, "research_results") = "R"
    /\ Falsy(given, "analysis_results")
    /\ Falsy(given, "writing_results")
    /\ Invoked = <<"analysis", "writing", "finalize">>
    /\ state["research_results"] = "R"

\* whether an answer of StepOutputs holds "error" or "failed" in any case
ExpectedReplan(output) ==
    CASE output = "Did the work. The step is complete." -> FALSE
      [] output = "An ERROR occurred while running the step." -> TRUE
      [] output = "The step Failed: no data." -> TRUE
      [] output = "" -> FALSE

Descriptions(q) == [k \in 1..Len(q) |-> <<q[k].step_number, q[k].description>>]

C14_Step ==
    agent.pc = "executing" /\ agent'.execution_log # agent.execution_log =>
        LET n == Len(agent.execution_log) + 1
        IN  /\ Len(agent'.execution_log) = n
            /\ agent.k = n
            /\ agent'.k = n + 1
            /\ agent'.execution_log[n].step_number = agent.plan[n].step_number
            /\ agent'.execution_log[n].description = agent.plan[n].description
            /\ Len(agent'.replans) = n
            /\ agent'.replans[n] = ExpectedReplan(agent'.execution_log[n].output)

\* C14: each iteration of run's loop executes the next step of the plan and
\* moves on, whatever should_replan returns (true exactly for an output
\* holding "error" or "failed" in any case); the plan does not change while
\* it is executed; when run ends the steps executed are the plan's, once
\* each and in order.
C14_NoRedo ==
    /\ [][C14_Step]_vars
    /\ [][agent.pc = "executing" => agent'.plan = agent.plan]_vars
    /\ [](agent.pc \in {"returned", "raised"} =>
            Descriptions(agent.execution_log) = Descriptions(agent.plan))

\* a two-step plan has been executed; should_replan was true for the first
\* step's output, written in capitals, and false for the second
C14_Witness ==
    /\ agent.pc = "returned"
    /\ Len(agent.plan) = 2
    /\ agent.execution_log[1].output = "An ERROR occurred while running the step."
    /\ agent.replans = <<TRUE, FALSE>>
    /\ Descriptions(agent.execution_log) = Descriptions(agent.plan)

\* C15: run ends by returning a final result with status "completed" for
\* every plan create_plan returns, the empty plan included.
C15_Completes ==
    agent.pc \in {"returned", "raised"} =>
        /\ agent.pc = "returned"
        /\ agent.final_result.status = "completed"

\* the add_note calls for key that no clear_notes call follows
LiveAdds(log, key) ==
    {j \in 1..Len(log) :
        /\ log[j].op = "add" /\ log[j].key = key
        /\ \A l \in (j + 1)..Len(log) : log[l].op # "clear"}

\* what get_note(key) is to report after the calls of log
ReportsRight(log, key, ret) ==
    IF LiveAdds(log, key) = {}
    THEN Prefix[ret, Len(key) + 18] = "Note '" \o key \o "' not found."
    ELSE LET j == CHOOSE j \in LiveAdds(log, key) : \A l \in LiveAdds(log, key) : l <= j
         IN  ret = "Note '" \o key \o "': " \o log[j].value

C17_ReadOnly ==
    Len(nt'.log) > Len(nt.log) /\ nt'.log[Len(nt'.log)].op \in {"get", "list"} =>
        nt'.notes = nt.notes

\* C17: after any calls, get_note(k) reports the value of the latest
\* add_note(k, v) made since the last clear_notes, and not-found when there
\* is none; so did every get_note call made; get_note and list_notes leave
\* the notes as they are.
C17_Notes ==
    /\ [](\A key \in NoteKeys :
            ReportsRight(nt.log, key, get_note(nt.notes, key).ret))
    /\ [](\A j \in 1..Len(nt.log) :
            nt.log[j].op = "get" =>
                ReportsRight(SubSeq(nt.log, 1, j - 1), nt.log[j].key, nt.log[j].ret))
    /\ [][C17_ReadOnly]_vars

\* a note was added, then updated, then read
C17_Witness ==
    /\ Len(nt.log) = 3
    /\ nt.log[1].op = "add" /\ nt.log[1].key = "task1"
    /\ nt.log[1].value = "Complete documentation"
    /\ nt.log[2].op = "add" /\ nt.log[2].key = "task1"
    /\ nt.log[2].value = "Review code"
    /\ nt.log[3].op = "get" /\ nt.log[3].key = "task1"
    /\ nt.log[3].ret = "Note 'task1': Review code"

\* the example the usage text of main.py gives for a name
Documented ==
    [c \in {"simple", "react", "multi-agent", "multiagent", "planning", "plan",
            "tools", "tool"} |->
        CASE c = "simple" -> "simple_agent"
          [] c = "react" -> "basic_react"
          [] c \in {"multi-agent", "multiagent"} -> "hierarchical"
          [] c \in {"planning", "plan"} -> "plan_and_execute"
          [] c \in {"tools", "tool"} -> "tool_definition"]

\* C16: when main has finished: with no argument or a help word the menu was
\* shown and no example ran; with a documented name, compared without regard
\* to case, exactly the example documented for it ran; with anything else the
\* unknown-command message was printed and no example ran.
C16_Dispatch ==
    cli.pc = "done" =>
        IF Len(cli.argv) < 2 \/ Lower[cli.argv[2]] \in HelpWords
        THEN cli.menus = 1 /\ cli.ran = <<>>
        ELSE IF Lower[cli.argv[2]] \in DOMAIN Documented
        THEN cli.menus = 0 /\ cli.ran = <<Documented[Lower[cli.argv[2]]]>>
        ELSE /\ cli.menus = 0 /\ cli.ran = <<>>
             /\ Prefix[cli.out, 16] = "Unknown command:"

\* C18: for max_results from 1 to 100, structured_search returns max_results
\* results, and total_found is the number of results returned.
C18_Count ==
    srch.pc = "done" /\ srch.max_results \in 1..DocumentedMax =>
        /\ Len(srch.output.results) = srch.max_results
        /\ srch.output.total_found = Len(srch.output.results)

\* C21: for every task, the empty one included, each worker returns a
\* non-empty string: every worker invocation of a run returned one, the
\* field of the worker that has just run is non-empty, and no two
\* consecutive selections of the manager are the same.
C21_NonEmpty ==
    /\ \A t \in TaskStrings : research[t] # "" /\ analyze[t] # "" /\ write[t] # ""
    /\ \A k \in 1..Len(trace) : trace[k].node \in Workers => trace[k].out # ""
    /\ InRun /\ trace # <<>> /\ Last(trace).node \in Workers =>
           NonEmpty(Field(Last(trace).node))
    /\ \A k \in 1..(Len(Selected) - 1) : Selected[k] # Selected[k + 1]

\* the run on the empty task has ended after one invocation of each worker
C21_Witness ==
    /\ node = "END"
    /\ state["task"] = ""
    /\ Selected = FullOrder
    /\ \A w \in Workers : Count(w) = 1 /\ Returned(w) # "" /\ NonEmpty(Field(w))

\* the record s without the key k
Without(s, k) == [x \in (DOMAIN s) \ {k} |-> s[x]]

\* labels that are no key of the routing table
UnknownLabels == {"", "bogus", "END", "Research"}

\* the node each label of the routing table stands for
NodeOf(label) == IF label = "end" THEN "END" ELSE label

C22_ManagerStep ==
    NodeStep("manager") =>
        /\ state'["next_agent"] \in Workers \cup {"finalize"}
        /\ node' = state'["next_agent"]
        /\ node' \notin {"manager", "END"}

\* C22: route_agent gives a node for every record: "manager" when the label
\* is missing, the node of the label when it is one of the six, END for any
\* other label; and the label read after manager_node is research, analysis,
\* writing or finalize, so a manager step never leads to manager or END.
C22_Routing ==
    /\ [](/\ route_agent(Without(state, "next_agent")) = "manager"
          /\ \A l \in Labels : route_agent(Set(state, "next_agent", l)) = NodeOf(l)
          /\ \A l \in UnknownLabels : route_agent(Set(state, "next_agent", l)) = "END")
    /\ [][C22_ManagerStep]_vars

\* the graph was invoked on a record without next_agent and the manager has
\* just selected a worker
C22_Witness ==
    /\ "next_agent" \notin DOMAIN given
    /\ trace # <<>>
    /\ Last(trace).node = "manager"
    /\ state["next_agent"] \in Workers
    /\ node = state["next_agent"]

====
